---- MODULE Spec2Model ----
(***************************************************************************)
(* Model of the GitHub-backed empire.Storage implementation                *)
(* (src/unnamed/part_000): the release-commit protocol (ReleasesCreate),  *)
(* the configuration codec (treeEntries / loadApp), the path sanitizer    *)
(* (PathJoin), the release history reader (Releases) and the app registry *)
(* (Apps / AppsFind), run against a model of the remote Git object API.   *)
(*                                                                         *)
(* Strings are sequences of symbols. A symbol is a one-character string   *)
(* ("/", "%", ".", "v", "1", ...) or a word made only of characters that  *)
(* url.QueryEscape leaves alone ("VERSION", "app.env", "base", "web").    *)
(***************************************************************************)
EXTENDS Integers, Sequences, FiniteSets, TLC

\* ------------------------------------------------------------------ bounds

\* Longest path component drawn for the path sanitizer.
MaxCompLen == 2
\* Most components passed to one PathJoin call.
MaxElems == 2

\* ------------------------------------------------------------ option values

None == <<>>
Some(v) == <<v>>
IsNone(o) == o = <<>>
IsSome(o) == o # <<>>
Get(o) == o[1]

\* ----------------------------------------------------------------- strings

RECURSIVE Flatten(_)
Flatten(ss) ==
    IF ss = <<>> THEN <<>> ELSE Head(ss) \o Flatten(Tail(ss))

IsPrefix(p, s) ==
    /\ Len(p) <= Len(s)
    /\ SubSeq(s, 1, Len(p)) = p

Contains(s, c) == \E i \in 1..Len(s) : s[i] = c

\* ---------------------------------------------------------- program constants

DirectorySeparator == "/"
BlobPerms == "100644"
FileVersion == <<"VERSION">>
FileEnv == <<"app.env">>
FileImage == <<"image.txt">>
FileServices == <<"services.json">>

\* Storage.BasePath, a configuration value.
BasePath == <<"base">>

\* ------------------------------------------------------------ path sanitizer

\* url.QueryEscape on one symbol: letters, digits, "-", "_", ".", "~" (and
\* words made of them) are kept, a space becomes "+", every other byte
\* becomes "%XX".
EscapeSym(c) ==
    CASE c = "/" -> <<"%", "2", "F">>
      [] c = "%" -> <<"%", "2", "5">>
      [] c = "+" -> <<"%", "2", "B">>
      [] c = "=" -> <<"%", "3", "D">>
      [] c = ":" -> <<"%", "3", "A">>
      [] c = " " -> <<"+">>
      [] OTHER   -> <<c>>

QueryEscape(s) == Flatten([i \in 1..Len(s) |-> EscapeSym(s[i])])

PathJoin(basepath, elem) ==
    basepath \o
    Flatten([i \in 1..Len(elem) |-> <<DirectorySeparator>> \o QueryEscape(elem[i])])

\* Storage.Path
Path(elem) == PathJoin(BasePath, elem)

\* ------------------------------------------------------------------ numbers

Digits == <<"0", "1", "2", "3", "4", "5", "6", "7", "8", "9">>

IsDigit(c) == \E i \in 1..10 : Digits[i] = c

DigitVal(c) == (CHOOSE i \in 1..10 : Digits[i] = c) - 1

RECURSIVE ItoaNat(_)
ItoaNat(n) ==
    IF n < 10 THEN <<Digits[n + 1]>>
    ELSE ItoaNat(n \div 10) \o <<Digits[(n % 10) + 1]>>

\* fmt.Sprintf("%d", n)
Itoa(n) == IF n < 0 THEN <<"-">> \o ItoaNat(0 - n) ELSE ItoaNat(n)

RECURSIVE DigitsVal(_, _)
DigitsVal(s, acc) ==
    IF s = <<>> THEN acc ELSE DigitsVal(Tail(s), acc * 10 + DigitVal(Head(s)))

AllDigits(s) == s # <<>> /\ \A i \in 1..Len(s) : IsDigit(s[i])

\* strconv.Atoi: an optional sign, then at least one decimal digit.
Atoi(s) ==
    LET signed == s # <<>> /\ Head(s) \in {"+", "-"}
        body   == IF signed THEN Tail(s) ELSE s
    IN  IF ~AllDigits(body) THEN [ok |-> FALSE, val |-> 0]
        ELSE [ok |-> TRUE,
              val |-> IF signed /\ Head(s) = "-"
                      THEN 0 - DigitsVal(body, 0) ELSE DigitsVal(body, 0)]

IsSpace(c) == c \in {" ", "\n", "\t"}

RECURSIVE TrimLeft(_)
TrimLeft(s) ==
    IF s # <<>> /\ IsSpace(Head(s)) THEN TrimLeft(Tail(s)) ELSE s

RECURSIVE TrimRight(_)
TrimRight(s) ==
    IF s # <<>> /\ IsSpace(s[Len(s)]) THEN TrimRight(SubSeq(s, 1, Len(s) - 1)) ELSE s

\* strings.TrimSpace
TrimSpace(s) == TrimRight(TrimLeft(s))

\* --------------------------------------------------- file formats (pkg/dotenv,
\* pkg/image, encoding/json): an environment and a formation are sequences of
\* <<key, value>> pairs in key order, an image is a record [repo, tag].

RECURSIVE EnvLines(_)
EnvLines(env) ==
    IF env = <<>> THEN <<>>
    ELSE <<Head(env)[1], "=", Head(env)[2], "\n">> \o EnvLines(Tail(env))

\* dotenv.Write: one KEY=VALUE line per entry; an entry with an empty key
\* cannot be written.
DotenvWrite(env) ==
    IF \E i \in 1..Len(env) : env[i][1] = ""
    THEN [ok |-> FALSE, out |-> <<>>]
    ELSE [ok |-> TRUE, out |-> EnvLines(env)]

RECURSIVE DotenvParse(_)
DotenvParse(s) ==
    IF s = <<>> THEN [ok |-> TRUE, env |-> <<>>]
    ELSE IF Len(s) < 4 \/ s[2] # "=" \/ s[4] # "\n" \/ s[1] \in {"=", "\n", ""}
         THEN [ok |-> FALSE, env |-> <<>>]
         ELSE LET rest == DotenvParse(SubSeq(s, 5, Len(s)))
              IN  [ok |-> rest.ok, env |-> <<(<<s[1], s[3]>>)>> \o rest.env]

\* dotenv.Read
DotenvRead(s) == DotenvParse(s)

\* image.Image.String
ImageString(img) == <<img.repo, ":", img.tag>>

\* image.Decode
ImageDecode(s) ==
    IF Len(s) = 3 /\ s[2] = ":" /\ s[1] # ":" /\ s[3] # ":"
    THEN [ok |-> TRUE, img |-> [repo |-> s[1], tag |-> s[3]]]
    ELSE [ok |-> FALSE, img |-> [repo |-> "", tag |-> ""]]

RECURSIVE JsonMembers(_)
JsonMembers(fm) ==
    IF fm = <<>> THEN <<>>
    ELSE <<Head(fm)[1], ":", Head(fm)[2]>>
         \o (IF Tail(fm) = <<>> THEN <<>> ELSE <<",">>)
         \o JsonMembers(Tail(fm))

\* jsonMarshal (json.MarshalIndent): a quantity that is no number ("NaN")
\* cannot be marshalled.
jsonMarshal(fm) ==
    IF \E i \in 1..Len(fm) : ~AllDigits(<<fm[i][2]>>)
    THEN [ok |-> FALSE, out |-> <<>>]
    ELSE [ok |-> TRUE, out |-> <<"{">> \o JsonMembers(fm) \o <<"}">>]

RECURSIVE JsonParseMembers(_)
JsonParseMembers(s) ==
    IF Len(s) < 3 \/ s[2] # ":" \/ ~AllDigits(<<s[3]>>) \/ s[1] \in {"{", "}", ":", ","}
    THEN [ok |-> FALSE, fm |-> <<>>]
    ELSE IF Len(s) = 3 THEN [ok |-> TRUE, fm |-> <<(<<s[1], s[3]>>)>>]
    ELSE IF s[4] # "," THEN [ok |-> FALSE, fm |-> <<>>]
    ELSE LET rest == JsonParseMembers(SubSeq(s, 5, Len(s)))
         IN  [ok |-> rest.ok, fm |-> <<(<<s[1], s[3]>>)>> \o rest.fm]

\* json.Unmarshal into the application's Formation: "null" leaves it nil.
jsonUnmarshal(s) ==
    IF s = <<"null">> THEN [ok |-> TRUE, fm |-> None]
    ELSE IF Len(s) < 2 \/ Head(s) # "{" \/ s[Len(s)] # "}"
         THEN [ok |-> FALSE, fm |-> None]
         ELSE IF Len(s) = 2 THEN [ok |-> TRUE, fm |-> Some(<<>>)]
         ELSE LET m == JsonParseMembers(SubSeq(s, 2, Len(s) - 1))
              IN  [ok |-> m.ok, fm |-> IF m.ok THEN Some(m.fm) ELSE None]

\* --------------------------------------------------------------- the codec

\* empire.App: Environment, Image and Formation are options (nil or a value).
NewApp(name) ==
    [Name |-> name, Version |-> 0, Environment |-> None, Image |-> None,
     Formation |-> None]

TreeEntry(path, content) ==
    [Path |-> path, Type |-> "blob", Mode |-> BlobPerms, Content |-> content]

\* fmt.Sprintf("v%d", app.Version)
VersionContent(v) == <<"v">> \o Itoa(v)

\* A plausible slip: the VERSION file holds the bare number.
treeEntriesBareVersion(app) ==
    [ok |-> TRUE,
     entries |-> <<TreeEntry(Path(<<app.Name, FileVersion>>), Itoa(app.Version))>>]

\* A plausible slip: services.json is written also for a nil Formation.
treeEntriesAlwaysServices(app) ==
    [ok |-> TRUE,
     entries |-> <<TreeEntry(Path(<<app.Name, FileVersion>>), VersionContent(app.Version)),
                   TreeEntry(Path(<<app.Name, FileServices>>), <<"{", "}">>)>>]

\* Storage.treeEntries: [ok, entries]; ok is FALSE when dotenv.Write or
\* jsonMarshal fails, and then no entries are returned.
treeEntries(app) ==
    LET e0  == <<TreeEntry(Path(<<app.Name, FileVersion>>), VersionContent(app.Version))>>
        env == IF IsSome(app.Environment) THEN DotenvWrite(Get(app.Environment))
               ELSE [ok |-> TRUE, out |-> <<>>]
        e1  == IF IsSome(app.Environment)
               THEN e0 \o <<TreeEntry(Path(<<app.Name, FileEnv>>), env.out)>>
               ELSE e0
        e2  == IF IsSome(app.Image)
               THEN e1 \o <<TreeEntry(Path(<<app.Name, FileImage>>),
                                      ImageString(Get(app.Image)))>>
               ELSE e1
        fm  == IF IsSome(app.Formation) THEN jsonMarshal(Get(app.Formation))
               ELSE [ok |-> TRUE, out |-> <<>>]
        e3  == IF IsSome(app.Formation)
               THEN e2 \o <<TreeEntry(Path(<<app.Name, FileServices>>), fm.out)>>
               ELSE e2
    IN  IF ~env.ok \/ ~fm.ok THEN [ok |-> FALSE, entries |-> <<>>]
        ELSE [ok |-> TRUE, entries |-> e3]

\* An error value: what failed and the path the message names (<<>>: none).
Err(kind, path) == [kind |-> kind, path |-> path]
NoErr == Err("", <<>>)

\* A fetch result: GetContents found a file (with its content) or failed.
Found(content) == [ok |-> TRUE, content |-> content]
NotFound == [ok |-> FALSE, content |-> <<>>]

\* fileContent: the error of a failed GetContents names the requested path.
fileContent(got, path) ==
    IF ~got.ok THEN [ok |-> FALSE, err |-> Err("get contents", path), raw |-> <<>>]
    ELSE [ok |-> TRUE, err |-> NoErr, raw |-> got.content]

\* The four reads of loadApp, in the order the code makes them.
LoadFiles == <<FileVersion, FileServices, FileImage, FileEnv>>

\* The path loadApp hands to the fetcher for a file.
LoadPath(name, file) == PathJoin(name, <<file>>)

\* One read of loadApp and its decoding: `got` is what the fetcher returned
\* for LoadPath(app.Name, LoadFiles[k]). status is "ok", "err" (the error is
\* returned) or "panic" (slicing an empty string at [1:]).
LoadStep(k, got, app) ==
    LET path == LoadPath(app.Name, LoadFiles[k])
        fc   == fileContent(got, path)
        done(a) == [status |-> "ok", err |-> NoErr, app |-> a]
        fail(e) == [status |-> "err", err |-> e, app |-> app]
    IN  IF ~fc.ok THEN fail(fc.err)
        ELSE CASE k = 1 ->
                    LET t == TrimSpace(fc.raw)
                    IN  IF t = <<>> THEN [status |-> "panic", err |-> NoErr, app |-> app]
                        ELSE LET vi == Atoi(Tail(t))
                             IN  IF ~vi.ok THEN fail(Err("strconv.Atoi", <<>>))
                                 ELSE done([app EXCEPT !.Version = vi.val])
               [] k = 2 ->
                    LET u == jsonUnmarshal(fc.raw)
                    IN  IF ~u.ok THEN fail(Err("json.Unmarshal", <<>>))
                        ELSE done([app EXCEPT !.Formation =
                                       IF IsSome(u.fm) THEN u.fm ELSE app.Formation])
               [] k = 3 ->
                    LET d == ImageDecode(fc.raw)
                    IN  IF ~d.ok THEN fail(Err("image.Decode", <<>>))
                        ELSE done([app EXCEPT !.Image = Some(d.img)])
               [] k = 4 ->
                    LET r == DotenvRead(fc.raw)
                    IN  IF ~r.ok THEN fail(Err("dotenv.Read", <<>>))
                        ELSE done([app EXCEPT !.Environment = Some(r.env)])

RECURSIVE LoadFrom(_, _, _)
LoadFrom(k, f, app) ==
    IF k > Len(LoadFiles) THEN [status |-> "ok", err |-> NoErr, app |-> app]
    ELSE LET r == LoadStep(k, f[LoadPath(app.Name, LoadFiles[k])], app)
         IN  IF r.status = "ok" THEN LoadFrom(k + 1, f, r.app) ELSE r

\* loadApp with a fetcher f (a function from requested path to fetch result):
\* ret is the returned application (None for nil).
loadApp(f, app) ==
    LET r == LoadFrom(1, f, app)
    IN  [status |-> r.status, err |-> r.err,
         ret |-> IF r.status = "ok" THEN Some(r.app) ELSE None]

\* ------------------------------------------------------- the remote Git API

\* A tree is a function from full path to file content; a commit is
\* [tree, parents, message, date] and its SHA is its index in `commits`.
EmptyTree == [p \in {} |-> <<>>]

\* A plausible slip: the tree is created from the entries alone, without the
\* base tree.
OverlayWithoutBase(tree, entries) ==
    LET written == {entries[i].Path : i \in 1..Len(entries)}
    IN  [p \in written |->
            entries[CHOOSE i \in 1..Len(entries) :
                       /\ entries[i].Path = p
                       /\ \A j \in (i + 1)..Len(entries) : entries[j].Path # p].Content]

\* Git.CreateTree: the base tree with the entries written over it.
Overlay(tree, entries) ==
    LET written == {entries[i].Path : i \in 1..Len(entries)}
        last(p) == CHOOSE i \in 1..Len(entries) :
                       /\ entries[i].Path = p
                       /\ \A j \in (i + 1)..Len(entries) : entries[j].Path # p
    IN  [p \in DOMAIN tree \cup written |->
            IF p \in written THEN entries[last(p)].Content ELSE tree[p]]

\* The content of a path in a tree, as an option.
FileAt(tree, p) == IF p \in DOMAIN tree THEN Some(tree[p]) ELSE None

\* Repositories.Merge joins file by file against the common ancestor: a side
\* that left the file alone takes the other side's; two different changes of
\* one file conflict.
MergeConflict(base, ours, theirs) ==
    \E p \in DOMAIN base \cup DOMAIN ours \cup DOMAIN theirs :
        /\ FileAt(ours, p) # FileAt(theirs, p)
        /\ FileAt(ours, p) # FileAt(base, p)
        /\ FileAt(theirs, p) # FileAt(base, p)

MergeTrees(base, ours, theirs) ==
    LET pick(p) == IF FileAt(theirs, p) = FileAt(base, p)
                   THEN FileAt(ours, p) ELSE FileAt(theirs, p)
        all == DOMAIN base \cup DOMAIN ours \cup DOMAIN theirs
    IN  [p \in {q \in all : IsSome(pick(q))} |-> Get(pick(p))]

\* ------------------------------------------------------------ model bounds

\* Most ReleasesCreate invocations one caller makes.
MaxCalls == 2
\* Most commit objects the remote repository holds.
MaxCommits == 7
\* Most Releases / AppsFind invocations the reader makes.
MaxReads == 1

\* ------------------------------------------------------------------- state

Writers == {"w1", "w2"}

\* The application the callers publish, and one whose name needs escaping.
AppName == <<"web">>
AppNames == {AppName, <<"a", "/", "b">>}

Descriptions == {"d1", "d2"}

EnvFooBar == << <<"FOO", "bar">> >>
EnvBad == << <<"", "bar">> >>
ImageOne == [repo |-> "nginx", tag |-> "1"]
FormationOne == << <<"web", "1">> >>
FormationBad == << <<"web", "NaN">> >>

Fields(env, img, fm) == [Environment |-> env, Image |-> img, Formation |-> fm]

\* The configurations a caller may give the application before a release:
\* each field nil or set, and two that cannot be serialised.
FieldChoices ==
    { Fields(env, img, fm) : env \in {None, Some(EnvFooBar)},
                             img \in {None, Some(ImageOne)},
                             fm \in {None, Some(FormationOne)} }
    \cup { Fields(Some(EnvBad), Some(ImageOne), Some(FormationOne)),
           Fields(Some(EnvFooBar), Some(ImageOne), Some(FormationBad)) }

\* The configurations drawn where several processes share the repository.
SharedChoices ==
    { Fields(Some(EnvFooBar), None, None),
      Fields(Some(EnvFooBar), Some(ImageOne), Some(FormationOne)) }

\* The configuration drawn where two callers publish.
TwoChoices == {Fields(Some(EnvFooBar), None, None)}

WithFields(app, f) ==
    [app EXCEPT !.Environment = f.Environment, !.Image = f.Image,
                !.Formation = f.Formation]

FieldsOf(app) == Fields(app.Environment, app.Image, app.Formation)

VARIABLES
    commits,    \* the remote's commit objects, by SHA
    ref,        \* the SHA the target ref (Storage.Ref) points at
    wr,         \* per caller: its application and its ReleasesCreate in flight
    rd,         \* the reader: a Releases or AppsFind call in flight, its result
    probe       \* input and output of one call of a pure function

vars == <<commits, ref, wr, rd, probe>>

Commit(tree, parents, message) ==
    [tree |-> tree, parents |-> parents, message |-> message,
     date |-> Len(commits) + 1]

RECURSIVE Ancestors(_)
\* The commits reachable from c, c included.
Ancestors(c) ==
    {c} \cup UNION {Ancestors(commits[c].parents[i]) :
                        i \in 1..Len(commits[c].parents)}

\* A ReleasesCreate invocation that has ended: the version the application
\* had when it was called, its arguments, where it ended ("ok" or the step
\* that failed), the remote calls it issued, the ref before and after, and
\* the commit it created (0: none). retry is the version the application had
\* before the call this one repeats, when the last call failed at the merge
\* and this one has the same arguments (-1: it repeats none).
Ended(v0, d, f, outcome, calls, commit, before, after, retry) ==
    [v0 |-> v0, desc |-> d, fields |-> f, outcome |-> outcome, calls |-> calls,
     commit |-> commit, refBefore |-> before, refAfter |-> after, retry |-> retry]

\* Whether a call with description d and configuration f repeats the call
\* of w that ended last.
SameCall(w, d, f) == wr[w].prev.desc = d /\ wr[w].prev.fields = f

NoCall == Ended(0, "", Fields(None, None, None), "none", <<>>, 0, 0, 0, 0 - 1)

\* A caller between two invocations. start is the version its application
\* had at first, left the invocations it may still make, prev the invocation
\* that ended last, nOk and nFail count the ended ones, pubs lists the commits
\* it published.
Idle(app, start, left, prev, nOk, nFail, pubs) ==
    [pc |-> "idle", app |-> app, desc |-> "", v0 |-> 0, refSHA |-> 0, last |-> 0,
     entries |-> <<>>, tree |-> EmptyTree, commit |-> 0, calls |-> <<>>,
     retry |-> 0 - 1, start |-> start, left |-> left, prev |-> prev, nOk |-> nOk,
     nFail |-> nFail, pubs |-> pubs]

\* ReleasesCreate returns an error: the caller keeps its application, whose
\* Version the call has already incremented.
Fail(w, step, calls) ==
    wr' = [wr EXCEPT ![w] =
              Idle(wr[w].app, wr[w].start, wr[w].left,
                   Ended(wr[w].v0, wr[w].desc, FieldsOf(wr[w].app), step, calls,
                         wr[w].commit, ref, ref, wr[w].retry),
                   wr[w].nOk, wr[w].nFail + 1, wr[w].pubs)]

InFlight == Cardinality({w \in Writers : wr[w].pc # "idle"})

\* ---------------------------------------------------------- ReleasesCreate

\* Line 72 and Git.GetRef: the version is incremented in the caller's
\* application before any remote call; then the ref's tip is read.
RCBegin(w, d, f) ==
    /\ wr[w].pc = "idle"
    /\ wr[w].left > 0
    /\ Len(commits) + 2 * (InFlight + 1) <= MaxCommits
    /\ LET app1  == [WithFields(wr[w].app, f) EXCEPT !.Version = @ + 1]
           v0    == wr[w].app.Version
           retry == IF wr[w].prev.outcome = "Merge" /\ SameCall(w, d, f)
                    THEN wr[w].prev.v0 ELSE 0 - 1
       IN  \E ok \in BOOLEAN :
             IF ok
             THEN wr' = [wr EXCEPT ![w] =
                            [wr[w] EXCEPT !.pc = "GetCommit", !.app = app1,
                                          !.desc = d, !.v0 = v0, !.refSHA = ref,
                                          !.left = @ - 1, !.calls = <<"GetRef">>,
                                          !.retry = retry]]
             ELSE wr' = [wr EXCEPT ![w] =
                            Idle(app1, wr[w].start, wr[w].left - 1,
                                 Ended(v0, d, f, "GetRef", <<"GetRef">>, 0, ref, ref,
                                       retry),
                                 wr[w].nOk, wr[w].nFail + 1, wr[w].pubs)]
    /\ UNCHANGED <<commits, ref, rd, probe>>

\* Git.GetCommit of the tip read by GetRef: the base of the changes.
RCGetCommit(w) ==
    /\ wr[w].pc = "GetCommit"
    /\ LET calls == Append(wr[w].calls, "GetCommit")
       IN  \E ok \in BOOLEAN :
             IF ok
             THEN wr' = [wr EXCEPT ![w].pc = "treeEntries",
                                   ![w].last = wr[w].refSHA,
                                   ![w].calls = calls]
             ELSE Fail(w, "GetCommit", calls)
    /\ UNCHANGED <<commits, ref, rd, probe>>

\* A plausible slip: the error of treeEntries is dropped and the call goes on
\* with the entries it has.
RCTreeEntriesIgnoringError(w) ==
    /\ wr[w].pc = "treeEntries"
    /\ wr' = [wr EXCEPT ![w].pc = "CreateTree",
                        ![w].entries = treeEntries(wr[w].app).entries]
    /\ UNCHANGED <<commits, ref, rd, probe>>

\* s.treeEntries(app): a local step; its error ends the call.
RCTreeEntries(w) ==
    /\ wr[w].pc = "treeEntries"
    /\ LET te == treeEntries(wr[w].app)
       IN  IF te.ok
           THEN wr' = [wr EXCEPT ![w].pc = "CreateTree", ![w].entries = te.entries]
           ELSE Fail(w, "treeEntries", wr[w].calls)
    /\ UNCHANGED <<commits, ref, rd, probe>>

\* A plausible slip: a failed CreateTree is tried once more before giving up.
RCCreateTreeRetrying(w) ==
    /\ wr[w].pc = "CreateTree"
    /\ LET calls == Append(wr[w].calls, "CreateTree")
       IN  \E ok \in BOOLEAN :
             IF ok
             THEN wr' = [wr EXCEPT ![w].pc = "CreateCommit",
                                   ![w].tree = Overlay(commits[wr[w].last].tree,
                                                       wr[w].entries),
                                   ![w].calls = calls]
             ELSE IF Len(calls) < 4
                  THEN wr' = [wr EXCEPT ![w].calls = calls]
                  ELSE Fail(w, "CreateTree", calls)
    /\ UNCHANGED <<commits, ref, rd, probe>>

\* Git.CreateTree on the base commit's tree.
RCCreateTree(w) ==
    /\ wr[w].pc = "CreateTree"
    /\ LET calls == Append(wr[w].calls, "CreateTree")
       IN  \E ok \in BOOLEAN :
             IF ok
             THEN wr' = [wr EXCEPT ![w].pc = "CreateCommit",
                                   ![w].tree = Overlay(commits[wr[w].last].tree,
                                                       wr[w].entries),
                                   ![w].calls = calls]
             ELSE Fail(w, "CreateTree", calls)
    /\ UNCHANGED <<commits, ref, rd, probe>>

\* A plausible slip: the commit is created by moving the ref to it, so it is
\* published before the merge.
RCCreateCommitMovingRef(w) ==
    /\ wr[w].pc = "CreateCommit"
    /\ commits' = Append(commits, Commit(wr[w].tree, <<wr[w].last>>, wr[w].desc))
    /\ ref' = Len(commits) + 1
    /\ wr' = [wr EXCEPT ![w].pc = "Merge", ![w].commit = Len(commits) + 1,
                        ![w].calls = Append(wr[w].calls, "CreateCommit")]
    /\ UNCHANGED <<rd, probe>>

\* A plausible slip: the parent of the commit is the tip the ref has when the
\* commit is created, not the one read at first.
RCCreateCommitOnTip(w) ==
    /\ wr[w].pc = "CreateCommit"
    /\ LET calls == Append(wr[w].calls, "CreateCommit")
       IN  \E ok \in BOOLEAN :
             IF ok
             THEN /\ commits' = Append(commits,
                                   Commit(wr[w].tree, <<ref>>, wr[w].desc))
                  /\ wr' = [wr EXCEPT ![w].pc = "Merge",
                                      ![w].commit = Len(commits) + 1,
                                      ![w].calls = calls]
             ELSE /\ Fail(w, "CreateCommit", calls)
                  /\ UNCHANGED commits
    /\ UNCHANGED <<ref, rd, probe>>

\* Git.CreateCommit: the description, the new tree, the base commit as parent.
RCCreateCommit(w) ==
    /\ wr[w].pc = "CreateCommit"
    /\ LET calls == Append(wr[w].calls, "CreateCommit")
       IN  \E ok \in BOOLEAN :
             IF ok
             THEN /\ commits' = Append(commits,
                                   Commit(wr[w].tree, <<wr[w].last>>, wr[w].desc))
                  /\ wr' = [wr EXCEPT ![w].pc = "Merge",
                                      ![w].commit = Len(commits) + 1,
                                      ![w].calls = calls]
             ELSE /\ Fail(w, "CreateCommit", calls)
                  /\ UNCHANGED commits
    /\ UNCHANGED <<ref, rd, probe>>

\* What Repositories.Merge of the caller's commit into the ref does: `ok` is
\* FALSE for a transport failure; a conflict fails the merge too.
MergeOutcome(w, ok) ==
    LET base   == commits[wr[w].last].tree
        ours   == commits[ref].tree
        theirs == commits[wr[w].commit].tree
    IN  IF ok /\ ~MergeConflict(base, ours, theirs)
        THEN [merged |-> TRUE, tree |-> MergeTrees(base, ours, theirs)]
        ELSE [merged |-> FALSE, tree |-> EmptyTree]

\* Repositories.Merge and the return of the Release.
RCMerge(w) ==
    /\ wr[w].pc = "Merge"
    /\ LET calls == Append(wr[w].calls, "Merge")
       IN  \E ok \in BOOLEAN :
             LET m == MergeOutcome(w, ok)
             IN  IF m.merged
                 THEN /\ commits' = Append(commits,
                                       Commit(m.tree, <<ref, wr[w].commit>>, "merge"))
                      /\ ref' = Len(commits) + 1
                      /\ wr' = [wr EXCEPT ![w] =
                                   Idle(wr[w].app, wr[w].start, wr[w].left,
                                        Ended(wr[w].v0, wr[w].desc, FieldsOf(wr[w].app),
                                              "ok", calls, wr[w].commit, ref,
                                              Len(commits) + 1, wr[w].retry),
                                        wr[w].nOk + 1, wr[w].nFail,
                                        Append(wr[w].pubs, wr[w].commit))]
                 ELSE /\ Fail(w, "Merge", calls)
                      /\ UNCHANGED <<commits, ref>>
    /\ UNCHANGED <<rd, probe>>

\* ------------------------------------------------- reads of the repository

\* Repositories.GetContents for a file, as Storage.GetContentsAtRef(sha)
\* calls it: the elements are joined to the base path by Storage.Path.
GetContentsAt(sha, elem) ==
    LET fullPath == Path(elem)
        tree     == commits[sha].tree
    IN  IF fullPath \in DOMAIN tree THEN Found(tree[fullPath]) ELSE NotFound

\* The order of symbols in a directory listing (byte order).
SymOrder == <<"%", "+", ".", "2", "5", "B", "F", "a", "b", "web", "x">>

SymRank(c) ==
    IF \E i \in 1..Len(SymOrder) : SymOrder[i] = c
    THEN CHOOSE i \in 1..Len(SymOrder) : SymOrder[i] = c
    ELSE 0

RECURSIVE NameLess(_, _)
NameLess(a, b) ==
    IF a = <<>> THEN b # <<>>
    ELSE IF b = <<>> THEN FALSE
    ELSE IF Head(a) = Head(b) THEN NameLess(Tail(a), Tail(b))
    ELSE SymRank(Head(a)) < SymRank(Head(b))

RECURSIVE SortNames(_)
SortNames(S) ==
    IF S = {} THEN <<>>
    ELSE LET m == CHOOSE x \in S : \A y \in S \ {x} : NameLess(x, y)
         IN  <<m>> \o SortNames(S \ {m})

RECURSIVE FirstSegment(_)
FirstSegment(s) ==
    IF s = <<>> \/ Head(s) = DirectorySeparator THEN <<>>
    ELSE <<Head(s)>> \o FirstSegment(Tail(s))

\* Repositories.GetContents for the base path: the directory's entries, by
\* name; a sub-directory is an entry of type "dir".
DirectoryContent(sha) ==
    LET tree   == commits[sha].tree
        prefix == BasePath \o <<DirectorySeparator>>
        under  == {p \in DOMAIN tree : IsPrefix(prefix, p)}
        rest(p) == SubSeq(p, Len(prefix) + 1, Len(p))
        names  == SortNames({FirstSegment(rest(p)) : p \in under})
    IN  [i \in 1..Len(names) |->
            [Name |-> names[i],
             Type |-> IF \E p \in under :
                             /\ FirstSegment(rest(p)) = names[i]
                             /\ Contains(rest(p), DirectorySeparator)
                      THEN "dir" ELSE "file"]]

RECURSIVE Touching(_, _)
\* The commits of c's history that changed path p: a commit that holds p as
\* one of its parents does is passed over, and only that parent is followed.
Touching(c, p) ==
    LET ps   == commits[c].parents
        me   == FileAt(commits[c].tree, p)
        same == {i \in 1..Len(ps) : FileAt(commits[ps[i]].tree, p) = me}
    IN  IF ps = <<>> THEN (IF IsSome(me) THEN {c} ELSE {})
        ELSE IF same # {}
             THEN Touching(ps[CHOOSE i \in same : \A j \in same : i <= j], p)
             ELSE {c} \cup UNION {Touching(ps[i], p) : i \in 1..Len(ps)}

RECURSIVE NewestFirst(_)
NewestFirst(S) ==
    IF S = {} THEN <<>>
    ELSE LET m == CHOOSE x \in S : \A y \in S : commits[y].date <= commits[x].date
         IN  <<m>> \o NewestFirst(S \ {m})

\* Repositories.ListCommits(SHA: tip, Path: p): most recent first.
ListCommits(tip, p) == NewestFirst(Touching(tip, p))

\* A call of the reader: pc is "idle" before the first call and "done" when
\* a call has returned, with its result. tips are the commits the ref pointed
\* at when it was read, at the commits whose files were asked for, and down
\* is TRUE when a remote call failed in transport.
Read(pc, op, name, left) ==
    [pc |-> pc, op |-> op, name |-> name, list |-> <<>>, k |-> 0,
     app |-> NewApp(<<>>), releases |-> <<>>, status |-> "none", err |-> NoErr,
     ret |-> None, at |-> {}, tips |-> {}, down |-> FALSE, left |-> left]

Release(app, description, createdAt, sha) ==
    [App |-> app, Description |-> description, CreatedAt |-> createdAt, sha |-> sha]

\* Storage.Releases up to the loop: ListCommits for the VERSION file.
ReleasesList(n) ==
    /\ rd.pc \in {"idle", "done"}
    /\ rd.left > 0
    /\ LET call == Read("decode", "Releases", n, rd.left - 1)
       IN  \E up \in BOOLEAN :
             LET list == ListCommits(ref, Path(<<n, FileVersion>>))
             IN  IF ~up
                 THEN rd' = [call EXCEPT !.pc = "done", !.status = "err",
                                         !.err = Err("ListCommits", <<>>),
                                         !.down = TRUE]
                 ELSE IF list = <<>>
                      THEN rd' = [call EXCEPT !.pc = "done", !.status = "ok",
                                              !.tips = {ref}]
                      ELSE rd' = [call EXCEPT !.list = list, !.tips = {ref}]
    /\ UNCHANGED <<commits, ref, wr, probe>>

\* The fetcher loadApp is given: every path it asks for, answered at one
\* commit (up is FALSE when the remote cannot be reached).
FetcherAt(sha, name, up) ==
    [p \in {LoadPath(name, LoadFiles[k]) : k \in 1..Len(LoadFiles)} |->
        IF up THEN GetContentsAt(sha, <<p>>) ELSE NotFound]

\* A plausible slip: a commit that does not decode is passed over and the
\* loop goes on with the next one.
ReleasesLoadSkippingFailed ==
    /\ rd.pc = "decode"
    /\ LET sha == Head(rd.list)
       IN  \E up \in BOOLEAN :
             LET r == loadApp(FetcherAt(sha, rd.name, up), NewApp(rd.name))
                 read == [rd EXCEPT !.at = @ \cup {sha}, !.down = @ \/ ~up,
                                    !.list = Tail(@),
                                    !.pc = IF Tail(rd.list) = <<>> THEN "done" ELSE "decode",
                                    !.status = IF Tail(rd.list) = <<>> THEN "ok" ELSE "none"]
             IN  IF r.status = "ok"
                 THEN rd' = [read EXCEPT
                               !.releases = Append(@, Release(Get(r.ret),
                                                commits[sha].message,
                                                commits[sha].date, sha))]
                 ELSE rd' = read
    /\ UNCHANGED <<commits, ref, wr, probe>>

\* One round of the loop of Storage.Releases: loadApp at the commit's SHA.
ReleasesLoad ==
    /\ rd.pc = "decode"
    /\ LET sha == Head(rd.list)
       IN  \E up \in BOOLEAN :
             LET r == loadApp(FetcherAt(sha, rd.name, up), NewApp(rd.name))
                 read == [rd EXCEPT !.at = @ \cup {sha}, !.down = @ \/ ~up]
             IN  IF r.status = "ok"
                 THEN rd' = [read EXCEPT
                               !.releases = Append(@, Release(Get(r.ret),
                                                commits[sha].message,
                                                commits[sha].date, sha)),
                               !.list = Tail(@),
                               !.pc = IF Tail(rd.list) = <<>> THEN "done" ELSE "decode",
                               !.status = IF Tail(rd.list) = <<>> THEN "ok" ELSE "none"]
                 ELSE rd' = [read EXCEPT !.pc = "done", !.status = r.status,
                                         !.err = r.err, !.releases = <<>>,
                                         !.list = <<>>]
    /\ UNCHANGED <<commits, ref, wr, probe>>

\* filterApps: exact match on the name, when the query gives one.
filterApps(apps, q) ==
    IF IsSome(q) THEN SelectSeq(apps, LAMBDA a : a = Get(q)) ELSE apps

\* Storage.Apps on a directory listing: the entries of type "dir".
Apps(listing, q) ==
    LET dirs == SelectSeq(listing, LAMBDA e : e.Type = "dir")
    IN  filterApps([i \in 1..Len(dirs) |-> dirs[i].Name], q)

\* Storage.Apps as a call of its own: the applications of the listing at the
\* ref, each with its name and nothing else.
AppsList(q) ==
    /\ rd.pc \in {"idle", "done"}
    /\ rd.left > 0
    /\ LET call == Read("done", "Apps", IF IsSome(q) THEN Get(q) ELSE <<>>,
                        rd.left - 1)
           listing == DirectoryContent(ref)
           apps == Apps(listing, q)
       IN  \E up \in BOOLEAN :
             IF ~up \/ listing = <<>>
             THEN rd' = [call EXCEPT !.status = "err",
                                     !.err = Err("get contents", BasePath),
                                     !.down = ~up]
             ELSE rd' = [call EXCEPT !.status = "ok", !.tips = {ref},
                                     !.ret = Some([i \in 1..Len(apps) |->
                                                      NewApp(apps[i])])]
    /\ UNCHANGED <<commits, ref, wr, probe>>

\* Storage.AppsFind up to loadApp: the listing at the ref, the first match.
AppsFindList(q) ==
    /\ rd.pc \in {"idle", "done"}
    /\ rd.left > 0
    /\ LET call == Read("load", "AppsFind", IF IsSome(q) THEN Get(q) ELSE <<>>,
                        rd.left - 1)
           listing == DirectoryContent(ref)
           apps == Apps(listing, q)
       IN  \E up \in BOOLEAN :
             IF ~up \/ listing = <<>>
             THEN rd' = [call EXCEPT !.pc = "done", !.status = "err",
                                     !.err = Err("get contents", BasePath),
                                     !.down = ~up]
             ELSE IF apps = <<>>
                  THEN rd' = [call EXCEPT !.pc = "done", !.status = "notfound",
                                          !.tips = {ref}]
                  ELSE rd' = [call EXCEPT !.app = NewApp(apps[1]), !.k = 1,
                                          !.tips = {ref}]
    /\ UNCHANGED <<commits, ref, wr, probe>>

\* One read of loadApp(s, app) in AppsFind: the fetcher is bound to the ref,
\* so each read is answered at the tip the ref has then.
AppsFindLoad ==
    /\ rd.pc = "load"
    /\ \E up \in BOOLEAN :
         LET got  == IF up THEN GetContentsAt(ref, <<LoadPath(rd.app.Name, LoadFiles[rd.k])>>)
                     ELSE NotFound
             r    == LoadStep(rd.k, got, rd.app)
             read == [rd EXCEPT !.at = @ \cup {ref}, !.down = @ \/ ~up]
         IN  IF r.status = "ok"
             THEN IF rd.k = Len(LoadFiles)
                  THEN rd' = [read EXCEPT !.pc = "done", !.status = "ok",
                                          !.app = r.app, !.ret = Some(r.app)]
                  ELSE rd' = [read EXCEPT !.k = @ + 1, !.app = r.app]
             ELSE rd' = [read EXCEPT !.pc = "done", !.status = r.status,
                                     !.err = r.err]
    /\ UNCHANGED <<commits, ref, wr, probe>>

\* The return of an operation that is not implemented: nil and the error.
Refused(op, name, message) ==
    [Read("done", op, name, rd.left - 1) EXCEPT !.status = "err",
                                                !.err = Err(message, <<>>)]

\* Storage.AppsDestroy, called with the application of a caller.
AppsDestroy(w) ==
    /\ rd.left > 0
    /\ rd.pc \in {"idle", "done"}
    /\ rd' = Refused("AppsDestroy", wr[w].app.Name, "AppsDestroy not implemented")
    /\ UNCHANGED <<commits, ref, wr, probe>>

\* Storage.ReleasesFind
ReleasesFind(n) ==
    /\ rd.left > 0
    /\ rd.pc \in {"idle", "done"}
    /\ rd' = Refused("ReleasesFind", n, "ReleasesFind not implemented")
    /\ UNCHANGED <<commits, ref, wr, probe>>

\* A plausible slip: Reset moves the ref back to the first commit and
\* reports success.
ResetToFirstCommit ==
    /\ rd.left > 0
    /\ rd.pc \in {"idle", "done"}
    /\ rd' = [Read("done", "Reset", <<>>, rd.left - 1) EXCEPT !.status = "ok"]
    /\ ref' = 1
    /\ UNCHANGED <<commits, wr, probe>>

\* Storage.Reset
Reset ==
    /\ rd.left > 0
    /\ rd.pc \in {"idle", "done"}
    /\ rd' = Refused("Reset", <<>>, "refusing to reset GitHub storage backend")
    /\ UNCHANGED <<commits, ref, wr, probe>>

\* The names a reader asks for.
QueryNames == {AppName, <<"x">>}

\* ------------------------------------------------------------ specification

InitialVersions == {0, 1}

InitialFields == Fields(Some(EnvFooBar), Some(ImageOne), Some(FormationOne))

\* The repository before the callers start: nothing under the base path
\* (version 0), or the application as one earlier release left it.
InitialApp(v, n) ==
    IF v = 0 THEN NewApp(n)
    ELSE [WithFields(NewApp(n), InitialFields) EXCEPT !.Version = v]

\* Another application the repository holds, and a plain file that lies in
\* the base directory itself.
OtherApp == <<"b">>
StrayFile == <<"x">>

InitialTree(v, n) ==
    IF v = 0 THEN EmptyTree
    ELSE Overlay(EmptyTree,
                 treeEntries(InitialApp(v, n)).entries
                   \o treeEntries(InitialApp(v + 1, OtherApp)).entries
                   \o <<TreeEntry(Path(<<StrayFile>>), <<"x">>)>>)

InitStore(v, n) ==
    /\ commits = << [tree |-> InitialTree(v, n), parents |-> <<>>,
                     message |-> "init", date |-> 1] >>
    /\ ref = 1

NoProbe == [op |-> "none"]

\* Every caller starts from the application as the repository holds it.
InitCallers(names, budget, reads) ==
    /\ \E v \in InitialVersions, n \in names :
         /\ InitStore(v, n)
         /\ wr = [w \in Writers |->
                    Idle(InitialApp(v, n), v, budget[w], NoCall, 0, 0, <<>>)]
    /\ rd = Read("idle", "none", <<>>, reads)
    /\ probe = NoProbe

\* ReleasesCreate, the caller's description and configuration drawn from
\* the given sets.
Publish(descs, choices) ==
    \/ \E w \in Writers, d \in descs, f \in choices : RCBegin(w, d, f)
    \/ \E w \in Writers : RCGetCommit(w)
    \/ \E w \in Writers : RCTreeEntries(w)
    \/ \E w \in Writers : RCCreateTree(w)
    \/ \E w \in Writers : RCCreateCommit(w)
    \/ \E w \in Writers : RCMerge(w)

\* Releases and AppsFind for the application that is published.
NextRead ==
    \/ ReleasesList(AppName)
    \/ ReleasesLoad
    \/ AppsFindList(Some(AppName))
    \/ AppsFindLoad

\* Apps and AppsFind, for every query.
NextApps ==
    \/ \E q \in {None} \cup {Some(n) : n \in QueryNames} : AppsList(q)
    \/ \E q \in {None} \cup {Some(n) : n \in QueryNames} : AppsFindList(q)
    \/ AppsFindLoad

\* The operations the backend refuses.
NextRefused ==
    \/ \E w \in Writers : AppsDestroy(w)
    \/ \E n \in QueryNames : ReleasesFind(n)
    \/ Reset

\* One caller publishing and one reader, against the same ref.
Init ==
    InitCallers({AppName}, [w \in Writers |-> IF w = "w1" THEN MaxCalls ELSE 0],
                MaxReads)

Next == Publish(Descriptions, SharedChoices) \/ NextRead

Spec == Init /\ [][Next]_vars

\* One caller making its calls one after another; nobody else writes.
InitSeq ==
    InitCallers(AppNames, [w \in Writers |-> IF w = "w1" THEN MaxCalls ELSE 0], 0)

NextSeq == Publish({"d1"}, FieldChoices)

SpecSeq == InitSeq /\ [][NextSeq]_vars

\* Two callers, each making its calls one after another.
InitTwo ==
    InitCallers({AppName},
                [w \in Writers |-> IF w = "w1" THEN MaxCalls - 1 ELSE MaxCalls], 0)

NextTwo == Publish({"d1"}, TwoChoices)

SpecTwo == InitTwo /\ [][NextTwo]_vars

\* One caller publishing, and one caller of the operations on applications
\* and of the operations that are refused.
InitOps ==
    InitCallers({AppName}, [w \in Writers |-> IF w = "w1" THEN MaxCalls - 1 ELSE 0],
                MaxReads)

NextOps == Publish({"d1"}, SharedChoices) \/ NextApps \/ NextRefused

SpecOps == InitOps /\ [][NextOps]_vars

\* ---------------------------------------------- calls of the pure functions

\* No caller and no reader: the repository as it is at first.
InitQuiet ==
    /\ InitStore(0, AppName)
    /\ wr = [w \in Writers |-> Idle(NewApp(AppName), 0, 0, NoCall, 0, 0, <<>>)]
    /\ rd = Read("idle", "none", <<>>, 0)

RECURSIVE SeqsUpTo(_, _)
\* The sequences over S of length n at most.
SeqsUpTo(S, n) ==
    IF n = 0 THEN {<<>>}
    ELSE LET shorter == SeqsUpTo(S, n - 1)
         IN  shorter \cup {Append(q, x) : q \in shorter, x \in S}

PathSyms == {"a", "/", "."}

\* The components drawn: every short one, and one that tries to climb out.
Components ==
    SeqsUpTo(PathSyms, MaxCompLen)
        \cup {<<"a", "/", ".", ".", "/", ".", ".", "/", "etc">>}

BaseDirs == {BasePath, <<"srv", "/", "apps">>}

InitPath ==
    /\ InitQuiet
    /\ \E b \in BaseDirs, e \in SeqsUpTo(Components, MaxElems) :
          probe = [op |-> "PathJoin", base |-> b, elem |-> e, out |-> <<>>,
                   done |-> FALSE]

\* One call of PathJoin(base, elem...).
PathJoinCall ==
    /\ probe.op = "PathJoin"
    /\ ~probe.done
    /\ probe' = [probe EXCEPT !.out = PathJoin(probe.base, probe.elem),
                              !.done = TRUE]
    /\ UNCHANGED <<commits, ref, wr, rd>>

SpecPath == InitPath /\ [][PathJoinCall]_vars

\* What the repository may hold at the paths loadApp asks for: well-formed
\* files, malformed ones, and (NotFound) none.
VersionGood == {<<"v", "1">>, <<" ", "v", "1", "2", "\n">>}
VersionBad == {<<"v", "x">>, <<"v">>, <<>>, <<"x", "3">>, <<"v", "-", "5">>}
ServicesGood == {<<"{", "web", ":", "1", "}">>, <<"{", "}">>}
ServicesBad == {<<"{", "web">>}
ImageGood == {<<"nginx", ":", "1">>}
ImageBad == {<<"nginx">>}
EnvGood == {<<"FOO", "=", "bar", "\n">>, <<>>}
EnvBad2 == {<<"FOO">>}

\* By read of loadApp: the contents that are well-formed, and those that are not.
GoodContents == <<VersionGood, ServicesGood, ImageGood, EnvGood>>
BadContents == <<VersionBad, ServicesBad, ImageBad, EnvBad2>>

FetchResults(k) ==
    {NotFound} \cup {Found(c) : c \in GoodContents[k] \cup BadContents[k]}

\* The fetchers drawn for an application: one answer per requested path.
Fetchers(name) ==
    { [p \in {LoadPath(name, LoadFiles[k]) : k \in 1..4} |->
          LET k == CHOOSE j \in 1..4 : LoadPath(name, LoadFiles[j]) = p
          IN  r[k]]
      : r \in [1..4 -> UNION {FetchResults(k) : k \in 1..4}] \cap
              {x \in [1..4 -> UNION {FetchResults(k) : k \in 1..4}] :
                  \A k \in 1..4 : x[k] \in FetchResults(k)} }

InitDecode ==
    /\ InitQuiet
    /\ \E n \in AppNames :
         \E f \in Fetchers(n) :
            probe = [op |-> "loadApp", name |-> n, f |-> f,
                     out |-> [status |-> "none", err |-> NoErr, ret |-> None],
                     done |-> FALSE]

\* One call of loadApp(f, &empire.App{Name: name}).
LoadAppCall ==
    /\ probe.op = "loadApp"
    /\ ~probe.done
    /\ probe' = [probe EXCEPT !.out = loadApp(probe.f, NewApp(probe.name)),
                              !.done = TRUE]
    /\ UNCHANGED <<commits, ref, wr, rd>>

SpecDecode == InitDecode /\ [][LoadAppCall]_vars

\* ------------------------------------------------------------------ claims

\* The VERSION file of an application in a commit, as an option.
VersionAt(sha, name) == FileAt(commits[sha].tree, Path(<<name, FileVersion>>))

\* C2: a caller that started from version V0 and has made N ReleasesCreate
\* calls, all of them successful, holds version V0 + N, and the k-th commit
\* it published holds exactly v(V0 + k) in its VERSION file.
C2_VersionAfterNReleases ==
    \A w \in Writers :
        (wr[w].pc = "idle" /\ wr[w].nFail = 0) =>
            /\ wr[w].app.Version = wr[w].start + wr[w].nOk
            /\ Len(wr[w].pubs) = wr[w].nOk
            /\ \A k \in 1..wr[w].nOk :
                  VersionAt(wr[w].pubs[k], wr[w].app.Name)
                      = Some(<<"v">> \o Itoa(wr[w].start + k))

C2_Witness ==
    \E w \in Writers :
        wr[w].pc = "idle" /\ wr[w].nFail = 0 /\ wr[w].nOk >= 2 /\ wr[w].start = 1

\* C4: a ReleasesCreate that fails at the merge leaves the ref where it was,
\* and the retry with the same application and description, when it
\* succeeds, publishes V0 + 1, V0 being the version before the failed call.
C4_RetryPublishesNextVersion ==
    \A w \in Writers :
        /\ wr[w].prev.outcome = "Merge" =>
              wr[w].prev.refAfter = wr[w].prev.refBefore
        /\ (wr[w].prev.outcome = "ok" /\ wr[w].prev.retry >= 0) =>
              VersionAt(wr[w].prev.commit, wr[w].app.Name)
                  = Some(VersionContent(wr[w].prev.retry + 1))

\* The remote calls that change the repository.
Mutating == {"CreateTree", "CreateCommit", "Merge"}

IssuedAny(calls, names) == \E i \in 1..Len(calls) : calls[i] \in names

\* C9 as stated: a ReleasesCreate that ends because the tree entries cannot
\* be built has issued no remote call at all.
C9_NoRemoteCallBeforeEntries ==
    \A w \in Writers :
        wr[w].prev.outcome = "treeEntries" => wr[w].prev.calls = <<>>

\* C9, amended: a ReleasesCreate whose application cannot be encoded issues
\* GetRef and GetCommit and nothing else: it never reaches CreateTree,
\* CreateCommit or Merge, it ends with the entries' error at the latest,
\* creates no commit and leaves the ref where it was.
C9_NoMutatingCallBeforeEntries ==
    \A w \in Writers :
        /\ (wr[w].pc # "idle" /\ ~treeEntries(wr[w].app).ok) =>
              /\ wr[w].pc \in {"GetCommit", "treeEntries"}
              /\ ~IssuedAny(wr[w].calls, Mutating)
        /\ (wr[w].prev.outcome # "none"
              /\ ~treeEntries(WithFields(wr[w].app, wr[w].prev.fields)).ok) =>
              /\ wr[w].prev.outcome \in {"GetRef", "GetCommit", "treeEntries"}
              /\ ~IssuedAny(wr[w].prev.calls, Mutating)
              /\ wr[w].prev.commit = 0
              /\ wr[w].prev.refAfter = wr[w].prev.refBefore
        /\ wr[w].prev.outcome = "treeEntries" =>
              wr[w].prev.calls = <<"GetRef", "GetCommit">>

C9_Witness ==
    \E w \in Writers :
        /\ wr[w].prev.outcome = "treeEntries"
        /\ wr[w].prev.fields.Formation = Some(FormationBad)

\* The entries of a written file in an entry list.
EntriesFor(entries, name, file) ==
    {i \in 1..Len(entries) :
        entries[i].Path = BasePath \o <<"/">> \o QueryEscape(name) \o <<"/">> \o file}

\* C7: the entries treeEntries builds for an application: one VERSION entry
\* holding "v<Version>", an app.env, image.txt and services.json entry exactly
\* when the field is not nil, nothing else, each of mode 100644 under
\* BasePath/<escaped name>/; and for "web" at version 0 with FOO=bar, no
\* image and no formation, ReleasesCreate submits base/web/VERSION = "v1" and
\* base/web/app.env and nothing else.
C7_EntriesMatchFields ==
    \A w \in Writers :
        wr[w].pc \in {"CreateTree", "CreateCommit", "Merge"} =>
            LET app == wr[w].app
                es  == wr[w].entries
                n(file) == Cardinality(EntriesFor(es, app.Name, file))
            IN  /\ n(FileVersion) = 1
                /\ \A i \in EntriesFor(es, app.Name, FileVersion) :
                      es[i].Content = <<"v">> \o Itoa(app.Version)
                /\ n(FileEnv) = IF IsSome(app.Environment) THEN 1 ELSE 0
                /\ n(FileImage) = IF IsSome(app.Image) THEN 1 ELSE 0
                /\ n(FileServices) = IF IsSome(app.Formation) THEN 1 ELSE 0
                /\ Len(es) = n(FileVersion) + n(FileEnv) + n(FileImage) + n(FileServices)
                /\ \A i \in 1..Len(es) : es[i].Mode = "100644"
                /\ (/\ app.Name = <<"web">>
                    /\ wr[w].v0 = 0
                    /\ FieldsOf(app) = Fields(Some(EnvFooBar), None, None)) =>
                      es = << [Path |-> <<"base", "/", "web", "/", "VERSION">>,
                               Type |-> "blob", Mode |-> "100644",
                               Content |-> <<"v", "1">>],
                              [Path |-> <<"base", "/", "web", "/", "app.env">>,
                               Type |-> "blob", Mode |-> "100644",
                               Content |-> <<"FOO", "=", "bar", "\n">>] >>

C7_Witness ==
    \E w \in Writers :
        /\ wr[w].pc = "CreateTree"
        /\ wr[w].app.Name = <<"web">>
        /\ wr[w].v0 = 0
        /\ FieldsOf(wr[w].app) = Fields(Some(EnvFooBar), None, None)
        /\ Len(wr[w].entries) = 2

Range(seq) == {seq[i] : i \in 1..Len(seq)}

\* Every commit a call of the reader was answered from or was told of.
Observed ==
    rd.at \cup rd.tips \cup Range(rd.list)
        \cup {rd.releases[i].sha : i \in 1..Len(rd.releases)}

\* C5: whatever a Releases or AppsFind call reads or returns comes from a
\* commit of the ref's history; the commit of a ReleasesCreate that has not
\* merged yet, or whose merge failed, is never among them.
C5_OnlyMergedIsRead ==
    /\ Observed \subseteq Ancestors(ref)
    /\ \A w \in Writers :
          /\ wr[w].pc = "Merge" => wr[w].commit \notin Observed
          /\ wr[w].prev.outcome = "Merge" => wr[w].prev.commit \notin Observed

C5_Witness ==
    \E w \in Writers :
        /\ wr[w].pc = "Merge"
        /\ wr[w].commit \notin Ancestors(ref)
        /\ rd.pc \in {"decode", "load", "done"}
        /\ rd.at # {}
        /\ \E c \in rd.at : c = ref

\* The application a successful ReleasesCreate published.
Published(w) ==
    [WithFields(NewApp(wr[w].app.Name), wr[w].prev.fields)
        EXCEPT !.Version = wr[w].prev.v0 + 1]

AllSet(f) == IsSome(f.Environment) /\ IsSome(f.Image) /\ IsSome(f.Formation)

\* C1: after a successful ReleasesCreate of an application with Environment,
\* Image and Formation set, AppsFind at the new tip, and Releases at the
\* published commit, decode the application as it was encoded.
C1_RoundTripThroughStore ==
    \A w \in Writers :
        (/\ wr[w].pc = "idle"
         /\ wr[w].prev.outcome = "ok"
         /\ AllSet(wr[w].prev.fields)
         /\ rd.pc = "done"
         /\ ~rd.down
         /\ rd.name = wr[w].app.Name) =>
            /\ (rd.op = "AppsFind" /\ rd.tips = {wr[w].prev.refAfter}
                    /\ rd.at = {wr[w].prev.refAfter}) =>
                  (rd.status = "ok" /\ rd.ret = Some(Published(w)))
            /\ (rd.op = "Releases" /\ rd.tips = {wr[w].prev.refAfter}) =>
                  /\ rd.status = "ok"
                  /\ \E i \in 1..Len(rd.releases) :
                        /\ rd.releases[i].sha = wr[w].prev.commit
                        /\ rd.releases[i].App = Published(w)

\* The files loadApp needs are all in the commit.
Complete(sha, name) ==
    \A k \in 1..Len(LoadFiles) :
        Path(<<name, LoadFiles[k]>>) \in DOMAIN commits[sha].tree

\* C6: Releases returns one release per commit that touched the VERSION
\* file, the newer commit's before the older one's, each with its commit's
\* message and committer date.
C6_ReleasesNewestFirst ==
    \A tip \in rd.tips :
        LET touched == ListCommits(tip, Path(<<rd.name, FileVersion>>))
        IN  (/\ rd.pc = "done"
             /\ rd.op = "Releases"
             /\ ~rd.down
             /\ \A i \in 1..Len(touched) : Complete(touched[i], rd.name)) =>
                /\ rd.status = "ok"
                /\ Len(rd.releases) = Len(touched)
                /\ \A i \in 1..Len(rd.releases) :
                      /\ rd.releases[i].sha = touched[i]
                      /\ rd.releases[i].Description = commits[touched[i]].message
                      /\ rd.releases[i].CreatedAt = commits[touched[i]].date
                /\ \A i, j \in 1..Len(rd.releases) :
                      i < j => rd.releases[i].CreatedAt > rd.releases[j].CreatedAt

\* The version a commit's VERSION file holds (-1: none that reads as one).
VersionNumber(sha, name) ==
    LET c == VersionAt(sha, name)
    IN  IF IsSome(c) /\ Get(c) # <<>> /\ Head(Get(c)) = "v" /\ Atoi(Tail(Get(c))).ok
        THEN Atoi(Tail(Get(c))).val ELSE 0 - 1

\* C3: along the ref's history of an application's VERSION file, newest
\* first, the recorded versions strictly decrease: no two commits carry the
\* same version and no later commit a smaller one, also with two callers.
C3_VersionsStrictlyIncrease ==
    LET h == ListCommits(ref, Path(<<AppName, FileVersion>>))
    IN  \A i, j \in 1..Len(h) :
            i < j => VersionNumber(h[i], AppName) > VersionNumber(h[j], AppName)

RECURSIVE Split(_, _)
\* The segments of a path between its separators; cur is the one being read.
Split(s, cur) ==
    IF s = <<>> THEN <<cur>>
    ELSE IF Head(s) = DirectorySeparator THEN <<cur>> \o Split(Tail(s), <<>>)
    ELSE Split(Tail(s), Append(cur, Head(s)))

RECURSIVE Resolve(_, _)
\* A path's segments with "", "." and ".." resolved, as path.Clean does.
Resolve(segs, stack) ==
    IF segs = <<>> THEN stack
    ELSE LET g == Head(segs)
         IN  IF g = <<>> \/ g = <<".">> THEN Resolve(Tail(segs), stack)
             ELSE IF g = <<".", ".">>
                  THEN IF stack # <<>> /\ stack[Len(stack)] # <<".", ".">>
                       THEN Resolve(Tail(segs), SubSeq(stack, 1, Len(stack) - 1))
                       ELSE Resolve(Tail(segs), Append(stack, g))
                  ELSE Resolve(Tail(segs), Append(stack, g))

Normal(path) == Resolve(Split(path, <<>>), <<>>)

CountSep(s) == Cardinality({i \in 1..Len(s) : s[i] = DirectorySeparator})

\* C8: PathJoin(base, components...) starts with base, has one separator per
\* component after it, and normalising it never leaves base.
C8_PathStaysUnderBase ==
    probe.done =>
        /\ IsPrefix(probe.base, probe.out)
        /\ CountSep(probe.out) = CountSep(probe.base) + Len(probe.elem)
        /\ IsPrefix(Normal(probe.base), Normal(probe.out))

\* The fetcher's answer to the k-th read of loadApp.
Answer(k) == probe.f[LoadPath(probe.name, LoadFiles[k])]

WellFormed(k) == Answer(k).ok /\ Answer(k).content \in GoodContents[k]

\* C10: when a file loadApp reads is absent or malformed (the files read
\* before it being fine), loadApp returns an error that names that file's
\* path, and no application.
C10_DecodeErrorNamesPath ==
    probe.done =>
        \A k \in 1..4 :
            ((\A j \in 1..(k - 1) : WellFormed(j)) /\ ~WellFormed(k)) =>
                /\ probe.out.status = "err"
                /\ probe.out.err.path = LoadPath(probe.name, LoadFiles[k])
                /\ probe.out.ret = None

\* C11: whatever the VERSION file holds, loadApp takes the version n from a
\* content that is, once trimmed, "v" and the decimal digits of n, and
\* returns an error for every other content (empty, no "v", no number after
\* it): it never crashes and never accepts such a content as a version.
C11_VersionDecoding ==
    (probe.done /\ Answer(1).ok) =>
        LET t == TrimSpace(Answer(1).content)
        IN  IF t # <<>> /\ Head(t) = "v" /\ AllDigits(Tail(t))
            THEN /\ probe.out.status \in {"ok", "err"}
                 /\ probe.out.status = "ok" =>
                        Get(probe.out.ret).Version = DigitsVal(Tail(t), 0)
                 /\ probe.out.status = "err" => \E k \in 2..4 : ~WellFormed(k)
            ELSE probe.out.status = "err"

\* C12: a commit that does not decode is fatal to the read: Releases, having
\* read a commit of the VERSION history that lacks one of the four files,
\* returns an error and no release at all, and AppsFind, having read a tip at
\* which the application lacks one of them, returns an error and no
\* application.
C12_DecodeErrorIsFatal ==
    rd.pc = "done" =>
        /\ (rd.op = "Releases" /\ \E c \in rd.at : ~Complete(c, rd.name)) =>
              (rd.status = "err" /\ rd.releases = <<>>)
        /\ (rd.op = "AppsFind" /\ \E c \in rd.at : ~Complete(c, rd.app.Name)) =>
              (rd.status = "err" /\ rd.ret = None)

C12_Witness ==
    /\ rd.pc = "done"
    /\ rd.op = "Releases"
    /\ ~rd.down
    /\ rd.status = "err"
    /\ \E c \in rd.at :
          /\ c > 1
          /\ Path(<<rd.name, FileVersion>>) \in DOMAIN commits[c].tree
          /\ Path(<<rd.name, FileImage>>) \notin DOMAIN commits[c].tree

\* The directories of the base path at a commit that a query asks for, in
\* listing order (an empty name asks for all of them).
Matching(sha, name) ==
    SelectSeq(DirectoryContent(sha),
              LAMBDA e : e.Type = "dir" /\ (name = <<>> \/ e.Name = name))

\* C13: AppsFind fails with a not-found error, which is not the error of a
\* failed listing, exactly when the listing has no directory of the name
\* asked for, and otherwise decodes and returns the first matching one; Apps
\* returns the directories of the base path, in listing order, with only
\* their names, and only the one of the name asked for when there is one.
C13_AppsAndAppsFind ==
    (rd.pc = "done" /\ rd.op \in {"AppsFind", "Apps"}) =>
        /\ rd.tips = {} => rd.status = "err"
        /\ \A tip \in rd.tips :
              LET found == Matching(tip, rd.name)
              IN  /\ (rd.op = "AppsFind" /\ found = <<>>) => rd.status = "notfound"
                  /\ (rd.op = "AppsFind" /\ found # <<>>) =>
                        /\ rd.app.Name = found[1].Name
                        /\ rd.status # "notfound"
                        /\ (~rd.down /\ rd.at = {tip} /\ Complete(tip, found[1].Name)) =>
                              /\ rd.status = "ok"
                              /\ Get(rd.ret).Name = found[1].Name
                  /\ rd.op = "Apps" =>
                        /\ rd.status = "ok"
                        /\ Get(rd.ret) = [i \in 1..Len(found) |-> NewApp(found[i].Name)]

Unimplemented == {"AppsDestroy", "ReleasesFind", "Reset"}

Steps == <<"GetRef", "GetCommit", "CreateTree", "CreateCommit", "Merge">>

\* The position of a step among the remote calls (the entries are built
\* between the second and the third).
IssuedBefore(pc) ==
    CASE pc = "GetCommit"    -> 1
      [] pc = "treeEntries"  -> 2
      [] pc = "CreateTree"   -> 2
      [] pc = "CreateCommit" -> 3
      [] pc = "Merge"        -> 4
      [] pc = "ok"           -> 5

\* C15: ReleasesCreate issues GetRef, GetCommit, CreateTree, CreateCommit and
\* Merge in this order, each at most once and only after the steps before it
\* succeeded (the entries being built after GetCommit); the first step that
\* fails is the last one issued and ends the invocation with an error; and
\* the ref changes only in a step that is a successful Merge.
C15_SequentialProtocol ==
    /\ [](\A w \in Writers :
            /\ wr[w].pc # "idle" =>
                  wr[w].calls = SubSeq(Steps, 1, IssuedBefore(wr[w].pc))
            /\ wr[w].prev.outcome = "ok" => wr[w].prev.calls = Steps
            /\ wr[w].prev.outcome = "treeEntries" =>
                  wr[w].prev.calls = SubSeq(Steps, 1, 2)
            /\ wr[w].prev.outcome \notin {"none", "ok", "treeEntries"} =>
                  \E n \in 1..5 :
                      /\ Steps[n] = wr[w].prev.outcome
                      /\ wr[w].prev.calls = SubSeq(Steps, 1, n))
    /\ [][/\ ref' # ref =>
                \E w \in Writers :
                    /\ wr[w].pc = "Merge"
                    /\ wr'[w].pc = "idle"
                    /\ wr'[w].prev.outcome = "ok"
          /\ \A w \in Writers :
                (wr[w].pc # "idle" /\ wr'[w].pc = "idle") =>
                    /\ wr'[w].prev.outcome # "none"
                    /\ wr'[w].prev.outcome # "ok" =>
                          (wr'[w].nFail = wr[w].nFail + 1 /\ ref' = ref)]_vars

C15_Witness ==
    \E w, u \in Writers :
        /\ w # u
        /\ wr[w].prev.outcome = "Merge"
        /\ wr[w].prev.calls = Steps
        /\ wr[u].prev.outcome = "ok"
        /\ ref > 1

\* The content an entry list gives a path (None: it has no entry for it).
EntryAt(entries, p) ==
    IF \E i \in 1..Len(entries) : entries[i].Path = p
    THEN Some(entries[CHOOSE i \in 1..Len(entries) : entries[i].Path = p].Content)
    ELSE None

\* C16: the commit ReleasesCreate creates has the tip read by GetRef as its
\* only parent and the description as its message, and its tree is that
\* parent's tree with the entries laid over it; and once ReleasesCreate has
\* returned success, the ref's tip has that commit, the tip read by GetRef
\* and the tip it replaced among its ancestors, also when another caller's
\* merge came in between.
C16_CommitOnReadTip ==
    \A w \in Writers :
        /\ wr[w].pc = "Merge" =>
              LET c    == commits[wr[w].commit]
                  base == commits[wr[w].refSHA].tree
              IN  /\ c.parents = <<wr[w].refSHA>>
                  /\ c.message = wr[w].desc
                  /\ \A p \in DOMAIN c.tree \cup DOMAIN base
                              \cup {wr[w].entries[i].Path : i \in 1..Len(wr[w].entries)} :
                        FileAt(c.tree, p) =
                            IF IsSome(EntryAt(wr[w].entries, p))
                            THEN EntryAt(wr[w].entries, p) ELSE FileAt(base, p)
        /\ wr[w].prev.outcome = "ok" =>
              LET c == wr[w].prev.commit
              IN  /\ commits[c].message = wr[w].prev.desc
                  /\ Len(commits[c].parents) = 1
                  /\ {c, commits[c].parents[1], wr[w].prev.refBefore}
                        \subseteq Ancestors(wr[w].prev.refAfter)
                  /\ wr[w].prev.refAfter \in Ancestors(ref)

C16_Witness ==
    \E w \in Writers :
        /\ wr[w].prev.outcome = "ok"
        /\ commits[wr[w].prev.commit].parents[1] # wr[w].prev.refBefore

\* What loadApp is to find for an application at a commit: the files where
\* treeEntries writes them.
WrittenAt(sha, name) ==
    [p \in {LoadPath(name, LoadFiles[k]) : k \in 1..Len(LoadFiles)} |->
        LET k == CHOOSE j \in 1..Len(LoadFiles) : LoadPath(name, LoadFiles[j]) = p
            c == FileAt(commits[sha].tree, Path(<<name, LoadFiles[k]>>))
        IN  IF IsSome(c) THEN Found(Get(c)) ELSE NotFound]

\* The application as one commit holds it (None: it does not decode).
StateAt(sha, name) == loadApp(WrittenAt(sha, name), NewApp(name)).ret

WrittenPath(name, file) ==
    LET app == WithFields(NewApp(name),
                          Fields(Some(EnvFooBar), Some(ImageOne), Some(FormationOne)))
        es  == treeEntries(app).entries
        i   == CHOOSE j \in 1..Len(es) :
                   SubSeq(es[j].Path, Len(es[j].Path) - Len(file) + 1, Len(es[j].Path))
                       = file
    IN  es[i].Path

\* C19: for each of the four files, the full path a loadApp for an
\* application asks the repository for (the element it hands the fetcher,
\* joined to the base path by GetContentsAtRef) is the path under which
\* treeEntries writes that file for that application.
C19_ReadAndWritePathsAgree ==
    probe.done =>
        \A k \in 1..Len(LoadFiles) :
            /\ LoadPath(probe.name, LoadFiles[k]) \in DOMAIN probe.f
            /\ Path(<<LoadPath(probe.name, LoadFiles[k])>>)
                  = WrittenPath(probe.name, LoadFiles[k])
            /\ WrittenPath(probe.name, LoadFiles[k])
                  = BasePath \o <<DirectorySeparator>> \o QueryEscape(probe.name)
                        \o <<DirectorySeparator>> \o LoadFiles[k]

\* The paths of a commit's tree and of another's.
PathsOf(a, b) == DOMAIN commits[a].tree \cup DOMAIN commits[b].tree

\* C20: a successful ReleasesCreate changes only the files its entries list:
\* in the commit it creates, every other file (of another application, or of
\* this one for a field that is nil) is as in the base tree, and at the new
\* tip every such file is as at the tip the merge replaced, which is the
\* base tree's unless another caller published in between; a nil field
\* leaves the file of the release before in place.
C20_PublishFrame ==
    \A w \in Writers :
        wr[w].prev.outcome = "ok" =>
            LET made     == wr[w].prev.commit
                base     == commits[made].parents[1]
                tip      == wr[w].prev.refAfter
                replaced == wr[w].prev.refBefore
                listed   == {treeEntries(Published(w)).entries[i].Path :
                                i \in 1..Len(treeEntries(Published(w)).entries)}
            IN  /\ \A p \in PathsOf(made, base) \ listed :
                      FileAt(commits[made].tree, p) = FileAt(commits[base].tree, p)
                /\ \A p \in PathsOf(tip, replaced) \ listed :
                      FileAt(commits[tip].tree, p) = FileAt(commits[replaced].tree, p)
                /\ replaced = base =>
                      \A p \in PathsOf(tip, base) \ listed :
                          FileAt(commits[tip].tree, p) = FileAt(commits[base].tree, p)

C20_Witness ==
    \E w \in Writers :
        /\ wr[w].prev.outcome = "ok"
        /\ wr[w].prev.fields.Image = None
        /\ FileAt(commits[wr[w].prev.refAfter].tree, Path(<<AppName, FileImage>>))
              = Some(ImageString(ImageOne))
        /\ Path(<<OtherApp, FileVersion>>) \in DOMAIN commits[wr[w].prev.refAfter].tree
        /\ wr[w].prev.refBefore = commits[wr[w].prev.commit].parents[1]

====
